---- MODULE Spec2Model ----
(***************************************************************************)
(* The ledger core of bank_account.py: BankAccount, SavingsAccount,        *)
(* Transaction and Bank.  Account objects live in a heap (objs); the Bank  *)
(* maps account numbers (dict keys) to heap objects, as the Python dict    *)
(* holds references.  Every call is one atomic step; the exception it      *)
(* raises (or "ok") is recorded in last.                                    *)
(***************************************************************************)
EXTENDS Integers, Sequences, FiniteSets, TLC

\* ---------------------------------------------------------------- bounds
MaxBal == 2        \* calls that would lift the sum of all balances above it are not explored
MaxLog == 1        \* calls that would make the log longer are not explored

Keys    == {"1", "2"}          \* account numbers used as arguments and dict keys
ObjIds  == {1, 2}              \* heap identities of the account objects
Amounts == {-1, 0, 1, 2}       \* amounts passed by callers
\* Interest rates are multiples of 100, so that rate / 100 and balance * (rate / 100)
\* are exact in Python's float arithmetic, as they are in the integers used here.
Rates   == {-100, 0, 100}
Mins    == {-1, 0, 1}
None    == "None"

VARIABLES
    objs,          \* heap: object identity -> account object
    accounts,      \* Bank.__accounts: account number -> object identity
    transactions,  \* Bank.__transactions
    last,          \* the call just made and what it raised
    threads        \* the calls in progress on concurrent threads (none when calls are sequential)
vars == <<objs, accounts, transactions, last, threads>>

\* ------------------------------------------------------ account objects
OK == "ok"
ErrAmount       == "Amount must be positive"
ErrInsufficient == "Insufficient balance"
ErrMinBalance   == "Can't exceed minimum balance"
ErrNotExists    == "does not exists"
ErrExists       == "already exists"
ErrFunds        == "There are not enough funds in the account"
ErrKey          == "KeyError"

Res(acc, err) == [acc |-> acc, err |-> err]

\* BankAccount.__init__ / SavingsAccount.__init__: the objects the constructors
\* accept (non-empty number, balance >= 0; rate and min_balance unchecked).
BankAccount(num, balance) ==
    [account_number |-> num, kind |-> "base", balance |-> balance,
     interest_rate |-> 0, min_balance |-> 0]

SavingsAccount(num, balance, rate, min) ==
    [account_number |-> num, kind |-> "savings", balance |-> balance,
     interest_rate |-> rate, min_balance |-> min]

BankAccount_deposit(acc, amount) ==
    IF amount <= 0 THEN Res(acc, ErrAmount)
    ELSE Res([acc EXCEPT !.balance = @ + amount], OK)

\* BankAccount.withdraw without its "amount > balance" check.
BankAccount_withdraw_unchecked(acc, amount) ==
    IF amount <= 0 THEN Res(acc, ErrAmount)
    ELSE Res([acc EXCEPT !.balance = @ - amount], OK)

\* BankAccount.withdraw refusing to empty the account (">=" for ">").
BankAccount_withdraw_strict(acc, amount) ==
    IF amount <= 0 THEN Res(acc, ErrAmount)
    ELSE IF amount >= acc.balance THEN Res(acc, ErrInsufficient)
    ELSE Res([acc EXCEPT !.balance = @ - amount], OK)

BankAccount_withdraw(acc, amount) ==
    IF amount <= 0 THEN Res(acc, ErrAmount)
    ELSE IF amount > acc.balance THEN Res(acc, ErrInsufficient)
    ELSE Res([acc EXCEPT !.balance = @ - amount], OK)

\* SavingsAccount.withdraw testing the floor against the balance before the
\* withdrawal instead of the balance after it.
SavingsAccount_withdraw_old_balance(acc, amount) ==
    IF acc.balance < acc.min_balance THEN Res(acc, ErrMinBalance)
    ELSE BankAccount_withdraw(acc, amount)

\* SavingsAccount.withdraw without its minimum-balance test.
SavingsAccount_withdraw_no_floor(acc, amount) == BankAccount_withdraw(acc, amount)

SavingsAccount_withdraw(acc, amount) ==
    IF (acc.balance - amount) < acc.min_balance THEN Res(acc, ErrMinBalance)
    ELSE BankAccount_withdraw(acc, amount)

\* account.withdraw(amount): Python's method dispatch on the object's class.
withdraw(acc, amount) ==
    IF acc.kind = "savings" THEN SavingsAccount_withdraw(acc, amount)
    ELSE BankAccount_withdraw(acc, amount)

\* account.deposit(amount): SavingsAccount inherits BankAccount.deposit.
deposit(acc, amount) == BankAccount_deposit(acc, amount)

SavingsAccount_add_interest(acc) ==
    LET interest == (acc.balance * acc.interest_rate) \div 100
    IN  deposit(acc, interest)

\* ----------------------------------------------------------------- bank
Transaction(type, number, amount, to) ==
    [transaction_type |-> type, account_number |-> number,
     amount |-> amount, account_number_to |-> to]

BankRes(o, t, err) == [objs |-> o, transactions |-> t, err |-> err]

\* Bank.deposit crediting the account without recording it.
Bank_deposit_unlogged(o, accs, txs, number, amount) ==
    IF number \notin DOMAIN accs THEN BankRes(o, txs, ErrNotExists)
    ELSE LET r == BankAccount_deposit(o[accs[number]], amount)
         IN  IF r.err # OK THEN BankRes(o, txs, r.err)
             ELSE BankRes([o EXCEPT ![accs[number]] = r.acc], txs, OK)

\* Bank.deposit appending its record before the account accepts the amount.
Bank_deposit_log_first(o, accs, txs, number, amount) ==
    IF number \notin DOMAIN accs THEN BankRes(o, txs, ErrNotExists)
    ELSE LET r   == BankAccount_deposit(o[accs[number]], amount)
             log == Append(txs, Transaction("deposit", number, amount, None))
         IN  IF r.err # OK THEN BankRes(o, log, r.err)
             ELSE BankRes([o EXCEPT ![accs[number]] = r.acc], log, OK)

\* Bank.deposit recording the attempt before it looks the account up.
Bank_deposit_log_missing(o, accs, txs, number, amount) ==
    IF number \notin DOMAIN accs
    THEN BankRes(o, Append(txs, Transaction("deposit", number, amount, None)), ErrNotExists)
    ELSE LET r == BankAccount_deposit(o[accs[number]], amount)
         IN  IF r.err # OK THEN BankRes(o, txs, r.err)
             ELSE BankRes([o EXCEPT ![accs[number]] = r.acc],
                          Append(txs, Transaction("deposit", number, amount, None)), OK)

Bank_deposit(o, accs, txs, number, amount) ==
    IF number \notin DOMAIN accs THEN BankRes(o, txs, ErrNotExists)
    ELSE LET r == deposit(o[accs[number]], amount)
         IN  IF r.err # OK THEN BankRes(o, txs, r.err)
             ELSE BankRes([o EXCEPT ![accs[number]] = r.acc],
                          Append(txs, Transaction("deposit", number, amount, None)), OK)

\* Bank.withdraw dropping the history when the account refuses.
Bank_withdraw_clears_log(o, accs, txs, number, amount) ==
    IF number \notin DOMAIN accs THEN BankRes(o, txs, ErrNotExists)
    ELSE LET r == withdraw(o[accs[number]], amount)
         IN  IF r.err # OK THEN BankRes(o, <<>>, r.err)
             ELSE BankRes([o EXCEPT ![accs[number]] = r.acc],
                          Append(txs, Transaction("withdraw", number, amount, None)), OK)

Bank_withdraw(o, accs, txs, number, amount) ==
    IF number \notin DOMAIN accs THEN BankRes(o, txs, ErrNotExists)
    ELSE LET r == withdraw(o[accs[number]], amount)
         IN  IF r.err # OK THEN BankRes(o, txs, r.err)
             ELSE BankRes([o EXCEPT ![accs[number]] = r.acc],
                          Append(txs, Transaction("withdraw", number, amount, None)), OK)

\* Bank.transfer that debits the source and never credits the destination.
Bank_transfer_no_credit(o, accs, txs, from, to, amount) ==
    IF from \notin DOMAIN accs THEN BankRes(o, txs, ErrNotExists)
    ELSE IF to \notin DOMAIN accs THEN BankRes(o, txs, ErrNotExists)
    ELSE IF o[accs[from]].balance - amount < 0 THEN BankRes(o, txs, ErrFunds)
    ELSE LET w  == withdraw(o[accs[from]], amount)
             o1 == [o EXCEPT ![accs[from]] = w.acc]
         IN  IF w.err # OK THEN BankRes(o, txs, w.err)
             ELSE BankRes(o1, Append(txs, Transaction("transfer", from, amount, to)), OK)

\* Bank.transfer with lines 161 and 162 swapped: the destination is credited
\* before the source's withdraw can refuse.
Bank_transfer_credit_first(o, accs, txs, from, to, amount) ==
    IF from \notin DOMAIN accs THEN BankRes(o, txs, ErrNotExists)
    ELSE IF to \notin DOMAIN accs THEN BankRes(o, txs, ErrNotExists)
    ELSE IF o[accs[from]].balance - amount < 0 THEN BankRes(o, txs, ErrFunds)
    ELSE LET d  == deposit(o[accs[to]], amount)
             o1 == [o EXCEPT ![accs[to]] = d.acc]
             w  == withdraw(o1[accs[from]], amount)
             o2 == [o1 EXCEPT ![accs[from]] = w.acc]
         IN  IF d.err # OK THEN BankRes(o, txs, d.err)
             ELSE IF w.err # OK THEN BankRes(o1, txs, w.err)
             ELSE BankRes(o2, Append(txs, Transaction("transfer", from, amount, to)), OK)

\* Bank.transfer recording source and destination the wrong way round.
Bank_transfer_swapped_record(o, accs, txs, from, to, amount) ==
    IF from \notin DOMAIN accs THEN BankRes(o, txs, ErrNotExists)
    ELSE IF to \notin DOMAIN accs THEN BankRes(o, txs, ErrNotExists)
    ELSE IF o[accs[from]].balance - amount < 0 THEN BankRes(o, txs, ErrFunds)
    ELSE LET w  == withdraw(o[accs[from]], amount)
             o1 == [o EXCEPT ![accs[from]] = w.acc]
             d  == deposit(o1[accs[to]], amount)
             o2 == [o1 EXCEPT ![accs[to]] = d.acc]
         IN  IF w.err # OK THEN BankRes(o, txs, w.err)
             ELSE IF d.err # OK THEN BankRes(o1, txs, d.err)
             ELSE BankRes(o2, Append(txs, Transaction("transfer", to, amount, from)), OK)

Bank_transfer(o, accs, txs, from, to, amount) ==
    IF from \notin DOMAIN accs THEN BankRes(o, txs, ErrNotExists)
    ELSE IF to \notin DOMAIN accs THEN BankRes(o, txs, ErrNotExists)
    ELSE IF o[accs[from]].balance - amount < 0 THEN BankRes(o, txs, ErrFunds)
    ELSE LET w  == withdraw(o[accs[from]], amount)
             o1 == [o EXCEPT ![accs[from]] = w.acc]
             d  == deposit(o1[accs[to]], amount)
             o2 == [o1 EXCEPT ![accs[to]] = d.acc]
         IN  IF w.err # OK THEN BankRes(o, txs, w.err)
             ELSE IF d.err # OK THEN BankRes(o1, txs, d.err)
             ELSE BankRes(o2, Append(txs, Transaction("transfer", from, amount, to)), OK)

RECURSIVE SumBalances(_, _, _)
SumBalances(o, accs, keys) ==
    IF keys = {} THEN 0
    ELSE LET k == CHOOSE k \in keys : TRUE
         IN  o[accs[k]].balance + SumBalances(o, accs, keys \ {k})

Bank_get_total_balance(o, accs) == SumBalances(o, accs, DOMAIN accs)

\* ------------------------------------------------------------ the state
\* The call just made and the exception it raised: what the caller observes.
Call(op, err) == [op |-> op, err |-> err]

\* The account objects of the bank scenario: a BankAccount numbered "1" and a
\* SavingsAccount numbered "2" with rate 100 and minimum balance 1.
Cast ==
    { [i \in ObjIds |-> IF i = 1 THEN BankAccount("1", b1)
                        ELSE SavingsAccount("2", b2, 100, 1)] :
        b1 \in 0..MaxBal, b2 \in 0..MaxBal }

RECURSIVE SumObjs(_, _)
SumObjs(o, ids) ==
    IF ids = {} THEN 0
    ELSE LET i == CHOOSE i \in ids : TRUE
         IN  o[i].balance + SumObjs(o, ids \ {i})

\* Bank.__init__ keeps whatever dict it is given.
Mappings == UNION { [ks -> ObjIds] : ks \in SUBSET Keys }

InBounds(o, txs) ==
    /\ SumObjs(o, DOMAIN o) <= MaxBal
    /\ Len(txs) <= MaxLog

Init ==
    /\ objs \in Cast
    /\ InBounds(objs, <<>>)
    /\ accounts \in Mappings
    /\ transactions = <<>>
    /\ last = Call("init", OK)
    /\ threads = <<>>

\* Calls made on an account object directly, not through the bank.
AccountDeposit(i, amount) ==
    LET r == deposit(objs[i], amount)
    IN  /\ objs' = [objs EXCEPT ![i] = r.acc]
        /\ InBounds(objs', transactions)
        /\ last' = Call("Account.deposit", r.err)
        /\ UNCHANGED <<accounts, transactions, threads>>

AccountWithdraw(i, amount) ==
    LET r == withdraw(objs[i], amount)
    IN  /\ objs' = [objs EXCEPT ![i] = r.acc]
        /\ last' = Call("Account.withdraw", r.err)
        /\ UNCHANGED <<accounts, transactions, threads>>

AddInterest(i) ==
    /\ objs[i].kind = "savings"
    /\ LET r == SavingsAccount_add_interest(objs[i])
       IN  /\ objs' = [objs EXCEPT ![i] = r.acc]
           /\ InBounds(objs', transactions)
           /\ last' = Call("add_interest", r.err)
    /\ UNCHANGED <<accounts, transactions, threads>>

\* Bank.add_account without the membership test: a duplicate replaces the entry.
Bank_add_account_overwrite(accs, acc, i) ==
    [accounts |-> [k \in DOMAIN accs \cup {acc.account_number} |->
                      IF k = acc.account_number THEN i ELSE accs[k]],
     err |-> OK]

Bank_add_account(accs, acc, i) ==
    IF acc.account_number \in DOMAIN accs
    THEN [accounts |-> accs, err |-> ErrExists]
    ELSE [accounts |-> [k \in DOMAIN accs \cup {acc.account_number} |->
                           IF k = acc.account_number THEN i ELSE accs[k]],
          err |-> OK]

\* Bank.remove_account emptying the dict instead of deleting one key.
Bank_remove_account_all(accs, number) ==
    IF number \in DOMAIN accs
    THEN [accounts |-> [k \in {} |-> accs[k]], err |-> OK]
    ELSE [accounts |-> accs, err |-> ErrKey]

Bank_remove_account(accs, number) ==
    IF number \in DOMAIN accs
    THEN [accounts |-> [k \in DOMAIN accs \ {number} |-> accs[k]], err |-> OK]
    ELSE [accounts |-> accs, err |-> ErrKey]

AddAccount(i) ==
    LET r == Bank_add_account(accounts, objs[i], i)
    IN  /\ accounts' = r.accounts
        /\ last' = Call("add_account", r.err)
        /\ UNCHANGED <<objs, transactions, threads>>

RemoveAccount(number) ==
    LET r == Bank_remove_account(accounts, number)
    IN  /\ accounts' = r.accounts
        /\ last' = Call("remove_account", r.err)
        /\ UNCHANGED <<objs, transactions, threads>>

Deposit(number, amount) ==
    LET r == Bank_deposit(objs, accounts, transactions, number, amount)
    IN  /\ InBounds(r.objs, r.transactions)
        /\ objs' = r.objs
        /\ transactions' = r.transactions
        /\ last' = Call("deposit", r.err)
        /\ UNCHANGED <<accounts, threads>>

Withdraw(number, amount) ==
    LET r == Bank_withdraw(objs, accounts, transactions, number, amount)
    IN  /\ InBounds(r.objs, r.transactions)
        /\ objs' = r.objs
        /\ transactions' = r.transactions
        /\ last' = Call("withdraw", r.err)
        /\ UNCHANGED <<accounts, threads>>

Transfer(from, to, amount) ==
    LET r == Bank_transfer(objs, accounts, transactions, from, to, amount)
    IN  /\ InBounds(r.objs, r.transactions)
        /\ objs' = r.objs
        /\ transactions' = r.transactions
        /\ last' = Call("transfer", r.err)
        /\ UNCHANGED <<accounts, threads>>

Next ==
    \/ \E i \in ObjIds, a \in Amounts : AccountDeposit(i, a)
    \/ \E i \in ObjIds, a \in Amounts : AccountWithdraw(i, a)
    \/ \E i \in ObjIds : AddInterest(i)
    \/ \E i \in ObjIds : AddAccount(i)
    \/ \E k \in Keys : RemoveAccount(k)
    \/ \E k \in Keys, a \in Amounts : Deposit(k, a)
    \/ \E k \in Keys, a \in Amounts : Withdraw(k, a)
    \/ \E f \in Keys, t \in Keys, a \in Amounts : Transfer(f, t, a)

Spec == Init /\ [][Next]_vars

\* Bank.get_account_transactions matching the source number only.
Bank_get_account_transactions_source_only(txs, number) ==
    SelectSeq(txs, LAMBDA t : t.account_number = number)

\* ------------------------------------------------ the bank on its own
\* The bank's methods alone, read accessors included; accounts are reached
\* only through the bank.
Bank_find_account(accs, number) ==
    IF number \notin DOMAIN accs THEN ErrNotExists ELSE OK

Bank_get_transaction_history(txs) == txs

Bank_get_account_transactions(txs, number) ==
    SelectSeq(txs, LAMBDA t : t.account_number = number \/ t.account_number_to = number)

Reply(op, err, result) == [op |-> op, err |-> err, result |-> result]

FindAccount(number) ==
    /\ last' = Reply("find_account", Bank_find_account(accounts, number), None)
    /\ UNCHANGED <<objs, accounts, transactions, threads>>

GetTotalBalance ==
    /\ last' = Reply("get_total_balance", OK, Bank_get_total_balance(objs, accounts))
    /\ UNCHANGED <<objs, accounts, transactions, threads>>

GetTransactionHistory ==
    /\ last' = Reply("get_transaction_history", OK,
                     Bank_get_transaction_history(transactions))
    /\ UNCHANGED <<objs, accounts, transactions, threads>>

GetAccountTransactions(number) ==
    /\ last' = Reply("get_account_transactions", OK,
                     Bank_get_account_transactions(transactions, number))
    /\ UNCHANGED <<objs, accounts, transactions, threads>>

NextBank ==
    \/ \E i \in ObjIds : AddAccount(i)
    \/ \E k \in Keys : RemoveAccount(k)
    \/ \E k \in Keys, a \in Amounts : Deposit(k, a)
    \/ \E k \in Keys, a \in Amounts : Withdraw(k, a)
    \/ \E f \in Keys, t \in Keys, a \in Amounts : Transfer(f, t, a)
    \/ \E k \in Keys : FindAccount(k)
    \/ GetTotalBalance
    \/ GetTransactionHistory
    \/ \E k \in Keys : GetAccountTransactions(k)

SpecBank == Init /\ [][NextBank]_vars

\* ------------------------------------------------------- the ledger
\* Accounts changed only through Bank.deposit, withdraw and transfer and never
\* removed.  Each object also remembers, in a field the methods never touch,
\* the balance it was created with, which is its balance when it is added.
Opened(acc) ==
    [account_number |-> acc.account_number, kind |-> acc.kind,
     balance |-> acc.balance, interest_rate |-> acc.interest_rate,
     min_balance |-> acc.min_balance, opened |-> acc.balance]

InitLedger ==
    /\ objs \in { [i \in ObjIds |-> Opened(o[i])] : o \in Cast }
    /\ InBounds(objs, <<>>)
    /\ accounts \in Mappings
    /\ transactions = <<>>
    /\ last = Call("init", OK)
    /\ threads = <<>>

NextLedger ==
    \/ \E i \in ObjIds : AddAccount(i)
    \/ \E k \in Keys, a \in Amounts : Deposit(k, a)
    \/ \E k \in Keys, a \in Amounts : Withdraw(k, a)
    \/ \E f \in Keys, t \in Keys, a \in Amounts : Transfer(f, t, a)

SpecLedger == InitLedger /\ [][NextLedger]_vars

\* ------------------------------------------------ reading the history
\* A bank that already holds a history: any sequence of records that
\* deposit, withdraw and transfer can append (accounts may open with any
\* balance, so every such sequence can be produced), read back by number.
MaxHist == 3

HistRecords ==
    {Transaction(ty, k, 1, None) : ty \in {"deposit", "withdraw"}, k \in Keys}
       \cup {Transaction("transfer", f, 1, t) : f \in Keys, t \in Keys}

Histories == UNION {[1..n -> HistRecords] : n \in 0..MaxHist}

\* The numbers asked for: the two registered ones and one never used.
HistKeys == Keys \cup {"3"}

InitHist ==
    /\ objs = [i \in ObjIds |-> IF i = 1 THEN BankAccount("1", 1)
                                ELSE SavingsAccount("2", 1, 100, 1)]
    /\ accounts = [k \in Keys |-> IF k = "1" THEN 1 ELSE 2]
    /\ transactions \in Histories
    /\ last = Call("init", OK)
    /\ threads = <<>>

NextHist ==
    \/ \E n \in HistKeys : GetAccountTransactions(n)
    \/ GetTransactionHistory

SpecHist == InitHist /\ [][NextHist]_vars

\* ------------------------------------------------- one account, traced
\* A single account object that no bank holds, of any class and with any
\* attributes its constructor accepts.  last also keeps the call's arguments,
\* the balance it found, and the call made before it.
NoCall == [op |-> "none", i |-> 0, amount |-> 0, err |-> OK, before |-> 0]

Trace(op, i, amount, err, before, prev) ==
    [op |-> op, i |-> i, amount |-> amount, err |-> err, before |-> before,
     prev |-> [op |-> prev.op, i |-> prev.i, amount |-> prev.amount,
               err |-> prev.err, before |-> prev.before]]

AccountObjects ==
    { BankAccount("1", b) : b \in 0..MaxBal } \cup
    { SavingsAccount("1", b, r, m) : b \in 0..MaxBal, r \in Rates, m \in Mins }

InitAcct ==
    /\ objs \in { [i \in {1} |-> acc] : acc \in AccountObjects }
    /\ accounts = <<>>
    /\ transactions = <<>>
    /\ last = Trace("init", 0, 0, OK, 0, NoCall)
    /\ threads = <<>>

CallDeposit(i, amount) ==
    LET r == deposit(objs[i], amount)
    IN  /\ objs' = [objs EXCEPT ![i] = r.acc]
        /\ InBounds(objs', transactions)
        /\ last' = Trace("Account.deposit", i, amount, r.err, objs[i].balance, last)
        /\ UNCHANGED <<accounts, transactions, threads>>

CallWithdraw(i, amount) ==
    LET r == withdraw(objs[i], amount)
    IN  /\ objs' = [objs EXCEPT ![i] = r.acc]
        /\ last' = Trace("Account.withdraw", i, amount, r.err, objs[i].balance, last)
        /\ UNCHANGED <<accounts, transactions, threads>>

CallAddInterest(i) ==
    /\ objs[i].kind = "savings"
    /\ LET r == SavingsAccount_add_interest(objs[i])
       IN  /\ objs' = [objs EXCEPT ![i] = r.acc]
           /\ InBounds(objs', transactions)
           /\ last' = Trace("add_interest", i, 0, r.err, objs[i].balance, last)
    /\ UNCHANGED <<accounts, transactions, threads>>

NextAcct ==
    \/ \E i \in DOMAIN objs, a \in Amounts : CallDeposit(i, a)
    \/ \E i \in DOMAIN objs, a \in Amounts : CallWithdraw(i, a)
    \/ \E i \in DOMAIN objs : CallAddInterest(i)

SpecAcct == InitAcct /\ [][NextAcct]_vars

\* ------------------------------------------- homework.py, one account
\* The classes of homework.py: methods return OperationResult instead of
\* raising, and take any value.
HwRes(acc, result) == [acc |-> acc, result |-> result]

Homework_BankAccount(balance) == [kind |-> "base", balance |-> balance]

Homework_SavingsAccount(balance, rate, min) ==
    [kind |-> "savings", balance |-> balance,
     interest_rate |-> rate, min_balance |-> min]

Homework_BankAccount_deposit(acc, value) ==
    HwRes([acc EXCEPT !.balance = @ + value], TRUE)

Homework_BankAccount_withdraw(acc, value) ==
    HwRes([acc EXCEPT !.balance = @ - value], TRUE)

\* homework.py's SavingsAccount.withdraw refusing a withdrawal down to the floor.
Homework_SavingsAccount_withdraw_strict(acc, value) ==
    IF acc.balance - value > acc.min_balance
    THEN Homework_BankAccount_withdraw(acc, value)
    ELSE HwRes(acc, FALSE)

Homework_SavingsAccount_withdraw(acc, value) ==
    IF acc.balance - value >= acc.min_balance
    THEN Homework_BankAccount_withdraw(acc, value)
    ELSE HwRes(acc, FALSE)

Homework_withdraw(acc, value) ==
    IF acc.kind = "savings" THEN Homework_SavingsAccount_withdraw(acc, value)
    ELSE Homework_BankAccount_withdraw(acc, value)

Homework_SavingsAccount_add_interest(acc) ==
    HwRes(Homework_BankAccount_deposit(
              acc, (acc.balance * acc.interest_rate) \div 100).acc, TRUE)

HwTrace(op, amount, result, before) ==
    [op |-> op, amount |-> amount, result |-> result, before |-> before]

HomeworkObjects ==
    {Homework_BankAccount(b) : b \in 0..MaxBal}
       \cup {Homework_SavingsAccount(b, r, m) : b \in 0..MaxBal, r \in Rates, m \in Mins}

\* Balances stay within -MaxBal..MaxBal.
HwInBounds(acc) == acc.balance \in -MaxBal..MaxBal

InitHw ==
    /\ objs \in { [i \in {1} |-> acc] : acc \in HomeworkObjects }
    /\ accounts = <<>>
    /\ transactions = <<>>
    /\ last = Call("init", OK)
    /\ threads = <<>>

HwDeposit(value) ==
    LET r == Homework_BankAccount_deposit(objs[1], value)
    IN  /\ HwInBounds(r.acc)
        /\ objs' = [objs EXCEPT ![1] = r.acc]
        /\ last' = HwTrace("deposit", value, r.result, objs[1])
        /\ UNCHANGED <<accounts, transactions, threads>>

HwWithdraw(value) ==
    LET r == Homework_withdraw(objs[1], value)
    IN  /\ HwInBounds(r.acc)
        /\ objs' = [objs EXCEPT ![1] = r.acc]
        /\ last' = HwTrace("withdraw", value, r.result, objs[1])
        /\ UNCHANGED <<accounts, transactions, threads>>

HwAddInterest ==
    /\ objs[1].kind = "savings"
    /\ LET r == Homework_SavingsAccount_add_interest(objs[1])
       IN  /\ HwInBounds(r.acc)
           /\ objs' = [objs EXCEPT ![1] = r.acc]
           /\ last' = HwTrace("add_interest", 0, r.result, objs[1])
    /\ UNCHANGED <<accounts, transactions, threads>>

NextHw ==
    \/ \E v \in Amounts : HwDeposit(v)
    \/ \E v \in Amounts : HwWithdraw(v)
    \/ HwAddInterest

SpecHw == InitHw /\ [][NextHw]_vars

\* ------------------------------------------ transfers on two threads
\* Two threads each run one Bank.transfer on the same bank.  The source takes
\* no lock, so a thread may be preempted between any two of its steps: the
\* existence and funds pre-check, the checks inside withdraw, the read and the
\* write of "balance -= amount", the check and read and then the write of
\* "balance += amount", and the append of the record.
Threads == {1, 2}

Thread(pc, from, to, amount, tmp, err) ==
    [pc |-> pc, from |-> from, to |-> to, amount |-> amount,
     tmp |-> tmp, err |-> err]

At(t, pc) == [threads EXCEPT ![t].pc = pc]

Raise(t, err) == [threads EXCEPT ![t].pc = "done", ![t].err = err]

InitConc ==
    /\ objs \in { [i \in ObjIds |-> Opened(o[i])] : o \in Cast }
    /\ InBounds(objs, <<>>)
    /\ accounts = [k \in Keys |-> IF k = "1" THEN 1 ELSE 2]
    /\ transactions = <<>>
    /\ last = Call("init", OK)
    /\ threads \in [Threads -> { Thread("start", f, t, a, 0, None) :
                                   f \in Keys, t \in Keys,
                                   a \in {x \in Amounts : x > 0} }]

\* transfer, lines 154-159: both accounts exist and the source can pay.
TransferCheck(t) ==
    LET th == threads[t]
    IN  /\ th.pc = "start"
        /\ threads' =
             IF th.from \notin DOMAIN accounts \/ th.to \notin DOMAIN accounts
             THEN Raise(t, ErrNotExists)
             ELSE IF objs[accounts[th.from]].balance - th.amount < 0
             THEN Raise(t, ErrFunds)
             ELSE At(t, "w_check")
        /\ UNCHANGED <<objs, accounts, transactions, last>>

\* from_account.withdraw(amount): the tests before the balance is touched.
WithdrawCheck(t) ==
    LET th == threads[t]
        r  == withdraw(objs[accounts[th.from]], th.amount)
    IN  /\ th.pc = "w_check"
        /\ threads' = IF r.err # OK THEN Raise(t, r.err) ELSE At(t, "w_read")
        /\ UNCHANGED <<objs, accounts, transactions, last>>

\* "self.__balance -= amount": the load of the balance ...
WithdrawRead(t) ==
    LET th == threads[t]
    IN  /\ th.pc = "w_read"
        /\ threads' = [threads EXCEPT ![t].pc = "w_write",
                                      ![t].tmp = objs[accounts[th.from]].balance]
        /\ UNCHANGED <<objs, accounts, transactions, last>>

\* ... and the store of the difference.
WithdrawWrite(t) ==
    LET th == threads[t]
    IN  /\ th.pc = "w_write"
        /\ objs' = [objs EXCEPT ![accounts[th.from]].balance = th.tmp - th.amount]
        /\ threads' = At(t, "d_read")
        /\ UNCHANGED <<accounts, transactions, last>>

\* to_account.deposit(amount): the amount test and the load of the balance ...
DepositRead(t) ==
    LET th == threads[t]
        r  == deposit(objs[accounts[th.to]], th.amount)
    IN  /\ th.pc = "d_read"
        /\ threads' = IF r.err # OK THEN Raise(t, r.err)
                      ELSE [threads EXCEPT ![t].pc = "d_write",
                                           ![t].tmp = objs[accounts[th.to]].balance]
        /\ UNCHANGED <<objs, accounts, transactions, last>>

\* ... and the store of the sum.
DepositWrite(t) ==
    LET th == threads[t]
    IN  /\ th.pc = "d_write"
        /\ objs' = [objs EXCEPT ![accounts[th.to]].balance = th.tmp + th.amount]
        /\ threads' = At(t, "log")
        /\ UNCHANGED <<accounts, transactions, last>>

\* transfer, line 163: the record is appended and the call returns.
LogAppend(t) ==
    LET th == threads[t]
    IN  /\ th.pc = "log"
        /\ transactions' = Append(transactions,
                                  Transaction("transfer", th.from, th.amount, th.to))
        /\ threads' = Raise(t, OK)
        /\ UNCHANGED <<objs, accounts, last>>

NextConc ==
    \E t \in Threads :
       \/ TransferCheck(t)
       \/ WithdrawCheck(t)
       \/ WithdrawRead(t)
       \/ WithdrawWrite(t)
       \/ DepositRead(t)
       \/ DepositWrite(t)
       \/ LogAppend(t)

SpecConc == InitConc /\ [][NextConc]_vars

\* ======================================================================
\* Properties of the bank scenario (Spec)
\* ======================================================================
IsSavings(i) == objs[i].kind = "savings"

\* The balances of o2 are those of o with src debited and dst credited by a
\* (the same object debited and credited keeps its balance); nothing else differs.
Moved(o, o2, src, dst, a) ==
    /\ DOMAIN o2 = DOMAIN o
    /\ \A i \in DOMAIN o :
         o2[i] = [o[i] EXCEPT !.balance =
                     @ - (IF i = src THEN a ELSE 0) + (IF i = dst THEN a ELSE 0)]

\* C1: the balance of every account object is never negative, whatever calls
\* (direct or through the bank, succeeding or failing) have been made.
BalanceNeverNegative == \A i \in DOMAIN objs : objs[i].balance >= 0

\* A transfer has just succeeded and emptied an account.
BalanceNeverNegativeWitness ==
    /\ last.op = "transfer" /\ last.err = OK
    /\ \E i \in DOMAIN objs : objs[i].balance = 0
    /\ \E i \in DOMAIN objs : objs[i].balance > 0

\* C2: a successful Bank.transfer(A, B, x) debits A's account by exactly x and
\* credits B's account by exactly x (the balance is unchanged when A and B are
\* the same account), changes no other account, and so keeps balanceA + balanceB
\* and Bank.get_total_balance() unchanged.
TransferConservesSum ==
    [][last'.op = "transfer" /\ last'.err = OK =>
         \A f \in Keys, t \in Keys, a \in Amounts :
            Transfer(f, t, a) =>
               /\ f \in DOMAIN accounts /\ t \in DOMAIN accounts
               /\ Moved(objs, objs', accounts[f], accounts[t], a)
               /\ objs'[accounts[f]].balance + objs'[accounts[t]].balance
                    = objs[accounts[f]].balance + objs[accounts[t]].balance
               /\ Bank_get_total_balance(objs', accounts')
                    = Bank_get_total_balance(objs, accounts)]_vars

\* A transfer between two different accounts has succeeded.
TransferConservesSumWitness ==
    /\ last.op = "transfer" /\ last.err = OK
    /\ Len(transactions) > 0
    /\ LET t == transactions[Len(transactions)]
       IN  /\ t.account_number \in DOMAIN accounts
           /\ t.account_number_to \in DOMAIN accounts
           /\ accounts[t.account_number] # accounts[t.account_number_to]

\* C3: a failing Bank.transfer leaves every balance, the mapping and the
\* transaction log exactly as they were.
FailedTransferChangesNothing ==
    [][last'.op = "transfer" /\ last'.err # OK =>
         UNCHANGED <<objs, accounts, transactions>>]_vars

\* A transfer passed the funds pre-check and then failed on the savings floor.
FailedTransferWitness ==
    /\ last.op = "transfer" /\ last.err = ErrMinBalance

\* C5: Bank.deposit and Bank.withdraw either succeed, changing exactly the
\* target account's balance by the amount and appending exactly one record of
\* the matching kind, or fail (unknown number, amount <= 0, insufficient
\* funds, floor violation) and leave balances and log unchanged.
DepositWithdrawAtomic ==
    [][\A k \in Keys, a \in Amounts :
         /\ (last'.op = "deposit" /\ Deposit(k, a)) =>
               IF k \in DOMAIN accounts /\ a > 0
               THEN /\ last'.err = OK
                    /\ Moved(objs, objs', 0, accounts[k], a)
                    /\ transactions' =
                          Append(transactions, Transaction("deposit", k, a, None))
               ELSE /\ last'.err # OK
                    /\ UNCHANGED <<objs, transactions>>
         /\ (last'.op = "withdraw" /\ Withdraw(k, a)) =>
               IF /\ k \in DOMAIN accounts /\ a > 0
                  /\ a <= objs[accounts[k]].balance
                  /\ (IsSavings(accounts[k]) =>
                        objs[accounts[k]].balance - a >= objs[accounts[k]].min_balance)
               THEN /\ last'.err = OK
                    /\ Moved(objs, objs', accounts[k], 0, a)
                    /\ transactions' =
                          Append(transactions, Transaction("withdraw", k, a, None))
               ELSE /\ last'.err # OK
                    /\ UNCHANGED <<objs, transactions>>]_vars

\* A bank withdrawal has failed on insufficient funds after the log got a record.
DepositWithdrawAtomicWitness ==
    /\ last.op = "withdraw" /\ last.err = ErrInsufficient
    /\ Len(transactions) = 1

\* C8: a successful Bank.transfer(A, B, x) appends exactly one record, of kind
\* transfer, with source A, destination B and amount x.
TransferLogsOneRecord ==
    [][last'.op = "transfer" /\ last'.err = OK =>
         \A f \in Keys, t \in Keys, a \in Amounts :
            Transfer(f, t, a) =>
               transactions' = Append(transactions, Transaction("transfer", f, a, t))]_vars

\* A transfer has succeeded and its record is the last of the log.
TransferLogsOneRecordWitness ==
    /\ last.op = "transfer" /\ last.err = OK
    /\ Len(transactions) > 0
    /\ transactions[Len(transactions)].transaction_type = "transfer"
    /\ transactions[Len(transactions)].account_number
         # transactions[Len(transactions)].account_number_to

\* C10: Bank.add_account of an account whose number is already a key fails
\* with "already exists" and changes nothing; otherwise it inserts exactly
\* that account under its number and changes nothing else.
AddAccountRejectsDuplicate ==
    [][last'.op = "add_account" =>
         \A i \in ObjIds :
            AddAccount(i) =>
               /\ UNCHANGED <<objs, transactions>>
               /\ IF objs[i].account_number \in DOMAIN accounts
                  THEN last'.err = ErrExists /\ UNCHANGED accounts
                  ELSE /\ last'.err = OK
                       /\ DOMAIN accounts' = DOMAIN accounts \cup {objs[i].account_number}
                       /\ accounts'[objs[i].account_number] = i
                       /\ \A k \in DOMAIN accounts : accounts'[k] = accounts[k]]_vars

\* An account was refused because another object holds its number.
AddAccountRejectsDuplicateWitness ==
    /\ last.op = "add_account" /\ last.err = ErrExists
    /\ \E k \in DOMAIN accounts : objs[accounts[k]].account_number # k

\* The floor rule on one withdrawal of a from savings object i, as amended:
\* refused when it would leave less than the minimum; accepted at the boundary
\* a = balance - min when that amount is positive and min >= 0; refused one
\* above the boundary.
FloorAmended(i, a) ==
    LET b == objs[i].balance
        m == objs[i].min_balance
    IN  /\ (b - a < m => last'.err # OK /\ objs' = objs)
        /\ (a = b - m /\ a > 0 /\ m >= 0 => last'.err = OK /\ objs'[i].balance = m)
        /\ (a = b - m + 1 => last'.err # OK)

\* The same with the boundary amount accepted for all balances and minimums.
FloorOriginal(i, a) ==
    LET b == objs[i].balance
        m == objs[i].min_balance
    IN  /\ (b - a < m => last'.err # OK /\ objs' = objs)
        /\ (a = b - m => last'.err = OK /\ objs'[i].balance = m)
        /\ (a = b - m + 1 => last'.err # OK)

\* C4 (as amended): a SavingsAccount's withdraw(a), called directly, through
\* Bank.withdraw or as the source of Bank.transfer, never succeeds when
\* balance - a < min_balance, so no step lowers a savings balance to below its
\* minimum; withdraw(balance - min) succeeds whenever that amount is positive
\* and min >= 0, and withdraw(balance - min + 1) always fails.
SavingsFloor ==
    [][/\ \A i \in ObjIds :
            IsSavings(i) /\ objs'[i].balance < objs[i].balance =>
               objs'[i].balance >= objs[i].min_balance
       /\ last'.op = "Account.withdraw" =>
            \A a \in Amounts, i \in ObjIds :
               IsSavings(i) /\ AccountWithdraw(i, a) => FloorAmended(i, a)
       /\ last'.op = "withdraw" =>
            \A a \in Amounts, k \in DOMAIN accounts :
               IsSavings(accounts[k]) /\ Withdraw(k, a) => FloorAmended(accounts[k], a)
       /\ (last'.op = "transfer" /\ ~(last'.err # OK /\ objs' = objs)) =>
            \A a \in Amounts, f \in DOMAIN accounts, t \in Keys :
               IsSavings(accounts[f]) /\ Transfer(f, t, a)
                  => objs[accounts[f]].balance - a >= objs[accounts[f]].min_balance]_vars

\* C4 (as claimed): the same with withdraw(balance - min) succeeding for all
\* balances and minimums.
SavingsFloorAllBoundaries ==
    [][\A a \in Amounts :
            /\ \A i \in ObjIds :
                 last'.op = "Account.withdraw" /\ IsSavings(i) /\ AccountWithdraw(i, a)
                    => FloorOriginal(i, a)
            /\ \A k \in DOMAIN accounts :
                 last'.op = "withdraw" /\ IsSavings(accounts[k]) /\ Withdraw(k, a)
                    => FloorOriginal(accounts[k], a)]_vars

\* A bank withdrawal has taken a savings account down to exactly its minimum.
SavingsFloorWitness ==
    /\ last.op = "withdraw" /\ last.err = OK
    /\ Len(transactions) > 0
    /\ LET k == transactions[Len(transactions)].account_number
       IN  /\ k \in DOMAIN accounts
           /\ IsSavings(accounts[k])
           /\ objs[accounts[k]].balance = objs[accounts[k]].min_balance

\* C16 (as claimed): every key of the accounts mapping is the account number
\* of the account it maps to, so no number is registered under two keys.
KeyIsAccountNumber ==
    /\ \A k \in DOMAIN accounts : objs[accounts[k]].account_number = k
    /\ \A j, k \in DOMAIN accounts :
          objs[accounts[j]].account_number = objs[accounts[k]].account_number => j = k

\* C18: a savings account whose balance is at or above its minimum balance
\* stays at or above it across every step: direct deposit, withdraw and
\* add_interest, and Bank.deposit, withdraw and transfer, accepted or refused.
SavingsStaysAboveMinimum ==
    [][\A i \in ObjIds :
          (IsSavings(i) /\ objs[i].balance >= objs[i].min_balance)
             => objs'[i].balance >= objs'[i].min_balance]_vars

\* A transfer out of the savings account was accepted and left it exactly at
\* its minimum balance.
SavingsStaysAboveMinimumWitness ==
    /\ last.op = "transfer" /\ last.err = OK
    /\ LET r == transactions[Len(transactions)]
       IN  /\ IsSavings(accounts[r.account_number])
           /\ ~IsSavings(accounts[r.account_number_to])
           /\ objs[accounts[r.account_number]].balance
                 = objs[accounts[r.account_number]].min_balance

\* ======================================================================
\* Properties of one traced account (SpecAcct)
\* ======================================================================
\* C6 (as claimed): add_interest on a balance >= 0 with a rate >= 0 raises
\* nothing and leaves balance = old balance + old balance * rate / 100.
AddInterestAlwaysSucceeds ==
    last.op = "add_interest" /\ objs[last.i].interest_rate >= 0 =>
       /\ last.err = OK
       /\ objs[last.i].balance =
             last.before + (last.before * objs[last.i].interest_rate) \div 100

\* deposit(x) succeeded and withdraw(x) was the very next call on the account.
DepositedThenWithdrew ==
    /\ last.op = "Account.withdraw"
    /\ last.prev.op = "Account.deposit" /\ last.prev.err = OK
    /\ last.prev.i = last.i /\ last.prev.amount = last.amount

\* C7 (as claimed): for every account and every positive x, deposit(x)
\* succeeds, and withdraw(x) right after it succeeds and restores the balance.
RoundTrip ==
    /\ (last.op = "Account.deposit" /\ last.amount > 0 => last.err = OK)
    /\ (DepositedThenWithdrew =>
          last.err = OK /\ objs[last.i].balance = last.prev.before)

\* C7 (as amended): the same for base accounts and for savings accounts whose
\* balance before the deposit is at least their minimum balance.
RoundTripAboveFloor ==
    /\ (last.op = "Account.deposit" /\ last.amount > 0 => last.err = OK)
    /\ (/\ DepositedThenWithdrew
        /\ (objs[last.i].kind = "base" \/ last.prev.before >= objs[last.i].min_balance)
        => last.err = OK /\ objs[last.i].balance = last.prev.before)

\* A savings account sitting on its minimum has made the round trip.
RoundTripWitness ==
    /\ DepositedThenWithdrew
    /\ objs[last.i].kind = "savings"
    /\ last.prev.before = objs[last.i].min_balance
    /\ last.err = OK /\ objs[last.i].balance = last.prev.before

\* C9 (as claimed): SavingsAccount.withdraw(amount) with amount <= 0 raises
\* "Amount must be positive" and leaves the balance unchanged; the
\* minimum-balance error is raised only for positive amounts.
NonPositiveWithdrawIsInvalidAmount ==
    last.op = "Account.withdraw" /\ objs[last.i].kind = "savings" =>
       /\ (last.amount <= 0 =>
             last.err = ErrAmount /\ objs[last.i].balance = last.before)
       /\ (last.err = ErrMinBalance => last.amount > 0)

\* ======================================================================
\* Properties of the bank on its own (SpecBank)
\* ======================================================================
\* C11: Bank.remove_account(n) deletes exactly the entry n when it is present
\* and changes no other entry, no balance and no record; when n is absent it
\* fails with KeyError (not found) and changes nothing.  While n is absent,
\* deposit, withdraw and transfer naming n fail with "does not exists".
RemoveAccountRemovesOnly ==
    [][/\ last'.op = "remove_account" =>
            \A k \in Keys :
               RemoveAccount(k) =>
                  /\ UNCHANGED <<objs, transactions>>
                  /\ IF k \in DOMAIN accounts
                     THEN /\ last'.err = OK
                          /\ DOMAIN accounts' = DOMAIN accounts \ {k}
                          /\ \A j \in DOMAIN accounts' : accounts'[j] = accounts[j]
                     ELSE /\ last'.err = ErrKey
                          /\ accounts' = accounts
       /\ \A k \in Keys \ DOMAIN accounts, a \in Amounts :
            /\ (last'.op = "deposit" /\ Deposit(k, a)) => last'.err = ErrNotExists
            /\ (last'.op = "withdraw" /\ Withdraw(k, a)) => last'.err = ErrNotExists
            /\ \A t \in Keys :
                 (last'.op = "transfer" /\ (Transfer(k, t, a) \/ Transfer(t, k, a)))
                    => last'.err = ErrNotExists]_vars

\* An account named by a logged record has been removed; another is still there.
RemoveAccountWitness ==
    /\ last.op = "remove_account" /\ last.err = OK
    /\ Len(transactions) = 1
    /\ transactions[1].account_number \notin DOMAIN accounts
    /\ DOMAIN accounts # {}

RecordsNameExistingAccounts ==
    [][/\ transactions' # transactions =>
            /\ Len(transactions') > 0
            /\ LET r == transactions'[Len(transactions')]
               IN  /\ r.account_number \in DOMAIN accounts
                   /\ IF r.transaction_type = "transfer"
                      THEN r.account_number_to \in DOMAIN accounts
                      ELSE r.account_number_to = None
       /\ \A k \in Keys \ DOMAIN accounts, a \in Amounts :
            (\/ last'.op = "deposit" /\ Deposit(k, a)
             \/ last'.op = "withdraw" /\ Withdraw(k, a)
             \/ \E t \in Keys :
                  last'.op = "transfer" /\ (Transfer(k, t, a) \/ Transfer(t, k, a)))
            => transactions' = transactions]_vars

\* A deposit naming a missing account was refused while the log holds a record.
RecordsNameExistingAccountsWitness ==
    /\ last.op = "deposit" /\ last.err = ErrNotExists
    /\ Len(transactions) = 1
    /\ transactions[1].transaction_type = "transfer"

\* ======================================================================
\* Properties of reading the history (SpecHist)
\* ======================================================================
\* Positions of the records of txs naming number as source or destination.
Naming(txs, number) ==
    {i \in 1..Len(txs) :
        txs[i].account_number = number \/ txs[i].account_number_to = number}

\* C13: get_account_transactions(n) returns exactly the records naming n as
\* source or destination, in log order (its j-th element is the record at the
\* j-th naming position), and leaves the log unchanged.
AccountTransactionsIsFilter ==
    [][\A n \in HistKeys :
          (last'.op = "get_account_transactions" /\ GetAccountTransactions(n)) =>
             LET idx == Naming(transactions, n)
                 r   == last'.result
             IN  /\ transactions' = transactions
                 /\ Len(r) = Cardinality(idx)
                 /\ \A j \in 1..Len(r) :
                      \E i \in idx : /\ Cardinality({m \in idx : m <= i}) = j
                                     /\ r[j] = transactions[i]]_vars

\* The answer keeps a transfer into the account and a later record out of it,
\* and skips a record of another account.
AccountTransactionsWitness ==
    /\ last.op = "get_account_transactions"
    /\ Len(last.result) = 2
    /\ Len(transactions) > 2
    /\ last.result[1].transaction_type = "transfer"
    /\ last.result[1].account_number # last.result[2].account_number
    /\ last.result[1].account_number_to = last.result[2].account_number

\* ======================================================================
\* Properties of homework.py (SpecHw)
\* ======================================================================
\* C14 (as claimed): homework.py's deposit refuses value <= 0, its withdraw
\* refuses value <= 0 and value > balance, and the balance of an account
\* opened with a balance >= 0 never goes below 0.
HomeworkEnforcesRules ==
    /\ objs[1].balance >= 0
    /\ last.op = "deposit" /\ last.amount <= 0 => ~last.result
    /\ (last.op = "withdraw" /\ (last.amount <= 0 \/ last.amount > last.before.balance))
          => ~last.result

\* C20: for balance b >= 0, minimum m >= 0 and amount a > 0 the two
\* SavingsAccount.withdraw implementations agree: homework.py returns
\* result=True exactly when bank_account.py raises nothing, exactly when
\* b - a >= m, and both leave the same balance (b - a if accepted, else b).
SavingsWithdrawAgree ==
    (/\ last.op = "withdraw"
     /\ last.before.kind = "savings"
     /\ last.before.balance >= 0
     /\ last.before.min_balance >= 0
     /\ last.amount > 0)
    => LET b == last.before.balance
           m == last.before.min_balance
           a == last.amount
           r == SavingsAccount_withdraw(
                    SavingsAccount("1", b, last.before.interest_rate, m), a)
       IN  /\ last.result = (r.err = OK)
           /\ last.result = (b - a >= m)
           /\ objs[1].balance = r.acc.balance
           /\ objs[1].balance = IF last.result THEN b - a ELSE b

\* Both implementations accepted a withdrawal that lands exactly on the floor.
SavingsWithdrawAgreeWitness ==
    /\ last.op = "withdraw"
    /\ last.before.kind = "savings"
    /\ last.before.min_balance = 1
    /\ last.amount = 1
    /\ last.result
    /\ objs[1].balance = 1

\* ======================================================================
\* Properties of the ledger (SpecLedger)
\* ======================================================================
\* What record r adds to the balance of object i: a record names an object
\* when the account number it carries is a key that maps to the object.
Effect(r, i) ==
    (IF r.transaction_type = "deposit" /\ accounts[r.account_number] = i
     THEN r.amount ELSE 0)
    + (IF r.transaction_type = "transfer" /\ accounts[r.account_number_to] = i
       THEN r.amount ELSE 0)
    - (IF r.transaction_type \in {"withdraw", "transfer"}
          /\ accounts[r.account_number] = i
       THEN r.amount ELSE 0)

RECURSIVE Net(_, _)
Net(txs, i) ==
    IF txs = <<>> THEN 0
    ELSE Net(SubSeq(txs, 1, Len(txs) - 1), i) + Effect(txs[Len(txs)], i)

AllDone == \A t \in Threads : threads[t].pc = "done"

\* The bank as it was before either thread started.
OpeningObjs == [i \in ObjIds |-> [objs[i] EXCEPT !.balance = objs[i].opened]]

\* The bank after the two transfers run one after the other, first then second.
Serial(first, second) ==
    LET r1 == Bank_transfer(OpeningObjs, accounts, <<>>, threads[first].from,
                            threads[first].to, threads[first].amount)
    IN  Bank_transfer(r1.objs, accounts, r1.transactions, threads[second].from,
                      threads[second].to, threads[second].amount)

\* C15 (as claimed): interleaved transfers behave as indivisible units: no
\* balance is ever negative, and once both calls have returned every balance
\* is its opening balance plus the net of the logged transfers and the bank
\* (balances and log) is what one of the two serial orders produces.
TransfersAreAtomic ==
    /\ \A i \in ObjIds : objs[i].balance >= 0
    /\ AllDone =>
          /\ \A i \in ObjIds :
                objs[i].balance = objs[i].opened + Net(transactions, i)
          /\ \E first \in Threads, second \in Threads :
                /\ first # second
                /\ objs = Serial(first, second).objs
                /\ transactions = Serial(first, second).transactions

====
